---- MODULE Spec2Model ----
(***************************************************************************)
(* CalculateAlbedo (sentinel-2-albedo/albedo/CalculateAlbedo.c): the       *)
(* per-pixel conversion of narrow-band surface reflectance into narrow-    *)
(* band and broadband black-sky / white-sky albedo and a quality code.     *)
(*                                                                         *)
(* Numbers.  The C doubles are modelled as exact rationals in fixed units: *)
(*   - lndSR_ScaFct is 1 / sensor.lndSR_ScaInv;                            *)
(*   - BRDF kernel weights are counted in quarters (w stands for w/4);     *)
(*   - anisotropy ratios are counted in halves (q stands for q/2);         *)
(*   - regression coefficients are counted in 1e-7 (all seven decimals of  *)
(*     the source tables are kept);                                        *)
(*   - a narrow-band albedo (slots 0..11) is counted in                    *)
(*     1 / (ANRUnit * lndSR_ScaInv), a broadband albedo (slots 12..17) in  *)
(*     1 / (ANRUnit * lndSR_ScaInv * 1e7).                                 *)
(* OneRowlndSR holds int16 values, so a double stored into it truncates.   *)
(***************************************************************************)
EXTENDS Integers, Sequences, FiniteSets, TLC

VARIABLES
    sensor,        \* DIS_LANDSAT *sensor: the shared sensor context
    snow_flag,     \* int snow_flag
    lndPixAlbedo,  \* double lndPixAlbedo[18], the caller's output vector
    QA,            \* int8 *QA, the caller's quality code
    closestCls,    \* what getClosestCls(sensor, icls, TM_Indx) returns, by TM_Indx
    ANratio,       \* what CalculateANratio returns for the band, by iband
    entry,         \* sensor, lndPixAlbedo and QA as they were when the call was made
    pc,            \* position in CalculateAlbedo
    local,         \* the locals: TM_coefficents_sw, icls, iband, tmpQA, lndSR_flag, ret
    path,          \* per band: which branches of the loop body ran
    rescued,       \* the broadband products whose rescue branch ran
    calls,         \* number of calls made so far on this sensor context
    first          \* what the first call returned (status, output vector, QA)

vars == <<sensor, snow_flag, lndPixAlbedo, QA, closestCls, ANratio, entry,
          pc, local, path, rescued, calls, first>>

----------------------------------------------------------------------------
(* Bounds and units *)

\* An input is the nominal pixel changed in at most MaxDeviations places.
MaxDeviations == 2

\* sensor->nbands: the six reflective bands of TMBandIndx.
NBands == 6

\* Denominator of an anisotropy ratio.
ANRUnit == 2

\* Denominator of a BRDF kernel weight.
BRDFUnit == 4

\* PUREPIX_thredhold * HIS_BIN (lndsr_albedo.h), as one number.
PurityThreshold == 15

\* int TMBandIndx[6]
TMBandIndx == <<2, 3, 0, 1, 5, 6>>

\* The regression tables, in 1e-7.
_TM_coefficents_sw == <<3206000, 0, 1572000, 3666000, 1162000, 457000, -63000>>
TM_coefficents_vis == <<6000000, 2204000, 1828000, 0, 0, 0, -33000>>
TM_coefficents_nir == <<0, 0, 0, 6646000, 2859000, 566000, -37000>>
LC8_n2b_lib == <<2453421, 508430, 1803945, 3080635, 1331847, 521349, 11052>>
LC8_n2b_lib_snow ==
    <<12241600, -4318450, -3446429, 3367926, 1834496, 2554519, -52154>>
MSI_n2b_lib_sw ==
    <<2687617, 361839, 1501418, 3044542, 1644330, 356021, -48673>>
MSI_n2b_lib_sw_snow ==
    <<-1992158, 23001910, -19121220, 6714989, -22728470, 19341390, -1144>>

Bands == 0 .. (NBands - 1)
Slots == 0 .. 17

----------------------------------------------------------------------------
(* The inputs.  Each input dimension has a list of options whose first     *)
(* entry is the nominal one.                                               *)

\* (instrument, snow_flag)
SceneOptions ==
    << <<"TM", 0>>, <<"TM", 1>>, <<"OLI", 0>>, <<"OLI", 1>>,
       <<"MSI", 0>>, <<"MSI", 1>> >>

\* SR_fillValue: a negative sentinel, zero, and the saturation value.
FillOptions == <<-3, 0, 9>>

\* pure_thrsh[icls]
PurityOptions == <<PurityThreshold + 1, PurityThreshold, PurityThreshold - 1>>

\* Clsdata[col]; classes are 0 .. actu_ncls = 2 and Cls_fillValue = 0.
ClassOptions == <<1, -1, 3, 0>>

\* *QA on entry
QAOptions == <<5, 0>>

\* OneRowlndSR[..][col] of the bands not singled out: a bright and a dark pixel.
SRLevelOptions == <<5, 0>>

\* OneRowlndSR[iband][col] of a band singled out; one more option stands for
\* SR_fillValue itself.
SROptions == <<-1, 11, 12>>

\* BRDF_paras[icls][TM_Indx], getClosestCls's answer, and
\* BRDF_paras[that class][TM_Indx].
BRDFOptions ==
    << [own |-> <<4, 4, 4>>, closest |-> 2, other |-> <<4, 4, 4>>],
       [own |-> <<1, 4, 4>>, closest |-> 2, other |-> <<4, 4, 4>>],
       [own |-> <<1, 1, 1>>, closest |-> 2, other |-> <<4, 4, 4>>],
       [own |-> <<0, 0, 0>>, closest |-> -1, other |-> <<4, 4, 4>>],
       [own |-> <<0, 0, 0>>, closest |-> 2, other |-> <<4, 4, 4>>],
       [own |-> <<0, 0, 0>>, closest |-> 2, other |-> <<1, 4, 4>>] >>

\* CalculateANratio's status and the ratios it stores (bsa, wsa).
ANROptions ==
    << [ok |-> TRUE, bsa |-> 1, wsa |-> 3],
       [ok |-> TRUE, bsa |-> -2, wsa |-> 2],
       [ok |-> FALSE, bsa |-> 0, wsa |-> 0] >>

NOptions(name) ==
    CASE name = "scene" -> Len(SceneOptions)
      [] name = "SR_fillValue" -> Len(FillOptions)
      [] name = "pure_thrsh" -> Len(PurityOptions)
      [] name = "Clsdata" -> Len(ClassOptions)
      [] name = "QA" -> Len(QAOptions)
      [] name = "level" -> Len(SRLevelOptions)
      [] name = "OneRowlndSR" -> Len(SROptions) + 2
      [] name = "BRDF_paras" -> Len(BRDFOptions)
      [] name = "ANratio" -> Len(ANROptions)

Dims ==
    {<<n, 0>> : n \in {"scene", "SR_fillValue", "pure_thrsh", "Clsdata", "QA", "level"}}
        \cup {<<n, b>> : n \in {"OneRowlndSR", "BRDF_paras", "ANratio"}, b \in Bands}

RECURSIVE DimSetsUpTo(_)
DimSetsUpTo(k) ==
    IF k = 0 THEN {{}}
    ELSE LET P == DimSetsUpTo(k - 1)
         IN  P \cup {s \cup {d} : s \in P, d \in Dims}

\* Every choice of a non-nominal option for each dimension of S.
RECURSIVE Deviations(_)
Deviations(S) ==
    IF S = {} THEN {[x \in {} |-> 1]}
    ELSE LET d == CHOOSE x \in S : TRUE
         IN  {a @@ (d :> i) : a \in Deviations(S \ {d}), i \in 2 .. NOptions(d[1])}

\* The option index input a gives dimension d.
Opt(a, d) == IF d \in DOMAIN a THEN a[d] ELSE 1

InSR(a, b) ==
    LET i == Opt(a, <<"OneRowlndSR", b>>)
    IN  IF i = 1 THEN SRLevelOptions[Opt(a, <<"level", 0>>)]
        ELSE IF i - 1 > Len(SROptions) THEN FillOptions[Opt(a, <<"SR_fillValue", 0>>)]
        ELSE SROptions[i - 1]

InBRDF(a, b) == BRDFOptions[Opt(a, <<"BRDF_paras", b>>)]

\* The band whose MODIS index is t (the unused index 4 has none).
BandOf(t) == {b \in Bands : TMBandIndx[b + 1] = t}

InParas(a, c, t) ==
    IF BandOf(t) = {} THEN <<0, 0, 0>>
    ELSE LET b == CHOOSE x \in BandOf(t) : TRUE
         IN  CASE c = 1 -> InBRDF(a, b).own
               [] c = 2 -> InBRDF(a, b).other
               [] OTHER -> <<0, 0, 0>>

InSensor(a) ==
    [ instrument    |-> SceneOptions[Opt(a, <<"scene", 0>>)][1],
      nbands        |-> NBands,
      lndSR_ScaInv  |-> 10,
      SR_fillValue  |-> FillOptions[Opt(a, <<"SR_fillValue", 0>>)],
      Clsdata       |-> ClassOptions[Opt(a, <<"Clsdata", 0>>)],
      Cls_fillValue |-> 0,
      actu_ncls     |-> 2,
      pure_thrsh    |-> [c \in 0 .. 2 |->
                            IF c = 1 THEN PurityOptions[Opt(a, <<"pure_thrsh", 0>>)]
                            ELSE PurityThreshold + 1],
      BRDF_paras    |-> [c \in 0 .. 2 |-> [t \in 0 .. 6 |-> InParas(a, c, t)]],
      OneRowlndSR   |-> [b \in Bands |-> InSR(a, b)] ]

InClosest(a) ==
    [t \in 0 .. 6 |->
        IF BandOf(t) = {} THEN 2
        ELSE InBRDF(a, CHOOSE x \in BandOf(t) : TRUE).closest]

InANratio(a) == [b \in Bands |-> ANROptions[Opt(a, <<"ANratio", b>>)]]

NoLocal ==
    [ coef |-> _TM_coefficents_sw, icls |-> 0, iband |-> 0,
      tmpQA |-> [k \in 0 .. 5 |-> 0], lndSR_flag |-> 0, ret |-> "none" ]

NoBranch == [anr |-> FALSE, neg |-> FALSE, iso |-> FALSE, nodata |-> FALSE]

NoPath == [b \in Bands |-> NoBranch]

NoResult == [ret |-> "none", albedo |-> <<>>, QA |-> 0]

Init ==
    \E S \in DimSetsUpTo(MaxDeviations) :
        \E a \in Deviations(S) :
            /\ sensor = InSensor(a)
            /\ snow_flag = SceneOptions[Opt(a, <<"scene", 0>>)][2]
            /\ lndPixAlbedo = [s \in Slots |-> -7]
            /\ QA = QAOptions[Opt(a, <<"QA", 0>>)]
            /\ closestCls = InClosest(a)
            /\ ANratio = InANratio(a)
            /\ entry = [ sensor |-> InSensor(a),
                         albedo |-> [s \in Slots |-> -7],
                         QA |-> QAOptions[Opt(a, <<"QA", 0>>)] ]
            /\ pc = "select"
            /\ local = NoLocal
            /\ path = NoPath
            /\ rescued = {}
            /\ calls = 1
            /\ first = NoResult

----------------------------------------------------------------------------
(* The pieces of CalculateAlbedo *)

\* The choice of TM_coefficents_sw by instrument and snow flag.
SelectCoefficients(instrument, snow) ==
    IF instrument = "OLI"
    THEN IF snow # 0 THEN LC8_n2b_lib_snow ELSE LC8_n2b_lib
    ELSE IF instrument = "MSI"
         THEN IF snow # 0 THEN MSI_n2b_lib_sw_snow ELSE MSI_n2b_lib_sw
         ELSE _TM_coefficents_sw

\* ValidClass without its comparison against Cls_fillValue.
ValidClassNoFill(icls, s) == ~((icls > s.actu_ncls) \/ (icls < 0))

\* The class index passes the test that otherwise returns FAILURE.
ValidClass(icls, s) ==
    ~((icls = s.Cls_fillValue) \/ (icls > s.actu_ncls) \/ (icls < 0))

\* BRDFava_flg: 1 when the three kernel weights of the class are all zero.
BRDFava_flg(paras) ==
    IF (paras[1] = 0) /\ (paras[2] = 0) /\ (paras[3] = 0) THEN 1 ELSE 0

\* TallyConfidence with >= for > in the high-confidence test.
TallyConfidenceGE(tmpQA, pure) ==
    LET t0 == IF pure >= PurityThreshold THEN [tmpQA EXCEPT ![0] = @ + 1] ELSE tmpQA
    IN  IF pure = PurityThreshold THEN [t0 EXCEPT ![1] = @ + 1] ELSE t0

\* tmpQA[0]++ / tmpQA[1]++ by the purity count of the pixel's own class.
TallyConfidence(tmpQA, pure) ==
    LET t0 == IF pure > PurityThreshold THEN [tmpQA EXCEPT ![0] = @ + 1] ELSE tmpQA
    IN  IF pure = PurityThreshold THEN [t0 EXCEPT ![1] = @ + 1] ELSE t0

\* A C cast of the rational n/d to an integer type: towards zero.
Trunc(n, d) == IF n >= 0 THEN n \div d ELSE -((-n) \div d)

\* (int16) (w + 0.5), for a weight w counted in 1/BRDFUnit.
RoundWeight(w) == Trunc(2 * w + BRDFUnit, 2 * BRDFUnit)

\* The anisotropy branch is entered.
UseANratio(sr, fill, tmp_BRDF) == (sr # fill) /\ (tmp_BRDF[1] # 0)

\* ClampSR without the constraint of negative values to zero.
ClampSRHighOnly(sr, scaInv) ==
    IF 10 * sr >= 12 * scaInv THEN Trunc(99 * scaInv, 100) ELSE sr

\* ClampSR with the upper constraint applied from the saturation value on.
ClampSRFromSaturation(sr, scaInv) ==
    LET lo == IF sr < 0 THEN 0 ELSE sr
    IN  IF 100 * lo > 99 * scaInv THEN Trunc(99 * scaInv, 100) ELSE lo

\* The two constraints on OneRowlndSR[iband][col], in order; the second
\* stores the double 0.99 / lndSR_ScaFct into the int16 raster.
ClampSR(sr, scaInv) ==
    LET lo == IF sr < 0 THEN 0 ELSE sr
    IN  IF 10 * lo >= 12 * scaInv THEN Trunc(99 * scaInv, 100) ELSE lo

\* lndSR_ScaFct * OneRowlndSR * tmp_ANR, for a ratio q counted in 1/ANRUnit.
Narrow(sr, q) == sr * q

\* Either narrow-band value is negative.
NegativeAlbedo(bsa, wsa) == (bsa < 0) \/ (wsa < 0)

\* The isotropic branch is entered.
UseIsotropic(sr, fill, tmp_BRDF) == (tmp_BRDF[1] = 0) /\ (sr # fill)

\* NoData with < for ==.
NoDataBelow(sr, fill) == sr < fill

\* The no-data branch is entered.
NoData(sr, fill) == sr = fill

\* ClassifyQA with the negative-anisotropy test ahead of the borrowed-class test.
ClassifyQANegFirst(tmpQA, nbands, qa) ==
    IF tmpQA[0] = nbands THEN 0
    ELSE IF tmpQA[0] + tmpQA[1] = nbands THEN 1
    ELSE IF tmpQA[3] > 0 THEN 3
    ELSE IF tmpQA[2] + tmpQA[0] + tmpQA[1] = nbands THEN 2
    ELSE qa

\* The quality code after the if / else-if chain over the tallies.
ClassifyQA(tmpQA, nbands, qa) ==
    IF tmpQA[0] = nbands THEN 0
    ELSE IF tmpQA[0] + tmpQA[1] = nbands THEN 1
    ELSE IF tmpQA[2] + tmpQA[0] + tmpQA[1] = nbands THEN 2
    ELSE IF tmpQA[3] > 0 THEN 3
    ELSE qa

\* Sum over iband < n of coef[iband] * lndPixAlbedo[iband * 2 + sky].
RECURSIVE WeightedAlbedo(_, _, _, _)
WeightedAlbedo(coef, albedo, sky, n) ==
    IF n = 0 THEN 0
    ELSE WeightedAlbedo(coef, albedo, sky, n - 1)
             + coef[n] * albedo[(n - 1) * 2 + sky]

\* Sum over iband < n of coef[iband] * OneRowlndSR[iband][col] * lndSR_ScaFct.
RECURSIVE WeightedSR(_, _, _)
WeightedSR(coef, sr, n) ==
    IF n = 0 THEN 0
    ELSE WeightedSR(coef, sr, n - 1) + coef[n] * sr[n - 1] * ANRUnit

\* coef[6], the intercept, in broadband units.
Intercept(coef, s) == coef[7] * ANRUnit * s.lndSR_ScaInv

\* The broadband pair at slots i, i + 1 is rescued.
NeedsRescue(albedo, i) == (albedo[i] <= 0) \/ (albedo[i + 1] <= 0)

\* What the rescue loop and the intercept after it leave in one slot.
RescueValue(old, coef, s) ==
    old + WeightedSR(coef, s.OneRowlndSR, s.nbands) + Intercept(coef, s)

RescuePair(albedo, i, coef, s) ==
    IF NeedsRescue(albedo, i)
    THEN [albedo EXCEPT ![i] = RescueValue(@, coef, s),
                        ![i + 1] = RescueValue(@, coef, s)]
    ELSE albedo

----------------------------------------------------------------------------
(* The steps of one call *)

Return(status) ==
    /\ pc' = "done"
    /\ local' = [local EXCEPT !.ret = status]

\* Lines 84-114.
Select ==
    /\ pc = "select"
    /\ local' = [local EXCEPT
                    !.coef = SelectCoefficients(sensor.instrument, snow_flag),
                    !.lndSR_flag = 0]
    /\ pc' = "class"
    /\ UNCHANGED <<sensor, snow_flag, lndPixAlbedo, QA, closestCls, ANratio,
                   entry, path, rescued, calls, first>>

\* Lines 116-134.
CheckClass ==
    /\ pc = "class"
    /\ IF ValidClass(sensor.Clsdata, sensor)
       THEN /\ local' = [local EXCEPT !.icls = sensor.Clsdata,
                                      !.tmpQA = [k \in 0 .. 5 |-> 0],
                                      !.iband = 0]
            /\ pc' = "band"
       ELSE Return("FAILURE")
    /\ UNCHANGED <<sensor, snow_flag, lndPixAlbedo, QA, closestCls, ANratio,
                   entry, path, rescued, calls, first>>

\* Lines 136-261: one pass of the band loop.
BandBody ==
    /\ pc = "band"
    /\ local.iband < sensor.nbands
    /\ LET iband == local.iband
           icls == local.icls
           TM_Indx == TMBandIndx[iband + 1]
           flg == BRDFava_flg(sensor.BRDF_paras[icls][TM_Indx])
           BRDFcls == IF flg = 0 THEN icls ELSE closestCls[TM_Indx]
       IN  IF (flg # 0) /\ (BRDFcls = -1)
           THEN /\ Return("FAILURE")
                /\ UNCHANGED <<sensor, lndPixAlbedo, path>>
           ELSE
             LET tmpQA1 == IF flg = 0
                           THEN TallyConfidence(local.tmpQA, sensor.pure_thrsh[icls])
                           ELSE [local.tmpQA EXCEPT ![2] = @ + 1]
                 tmp_BRDF == [k \in 1 .. 3 |->
                                 RoundWeight(sensor.BRDF_paras[BRDFcls][TM_Indx][k])]
                 fill == sensor.SR_fillValue
                 sr0 == sensor.OneRowlndSR[iband]
                 anr == UseANratio(sr0, fill, tmp_BRDF)
             IN  IF anr /\ ~ANratio[iband].ok
                 THEN /\ pc' = "exit"
                      /\ local' = [local EXCEPT !.tmpQA = tmpQA1]
                      /\ UNCHANGED <<sensor, lndPixAlbedo, path>>
                 ELSE
                   LET sr1 == IF anr THEN ClampSR(sr0, sensor.lndSR_ScaInv) ELSE sr0
                       bsa == Narrow(sr1, ANratio[iband].bsa)
                       wsa == Narrow(sr1, ANratio[iband].wsa)
                       neg == anr /\ NegativeAlbedo(bsa, wsa)
                       iso == UseIsotropic(sr1, fill, tmp_BRDF)
                       nodata == NoData(sr1, fill)
                       tmpQA2 == IF neg THEN [tmpQA1 EXCEPT ![3] = @ + 1] ELSE tmpQA1
                       tmpQA3 == IF iso THEN [tmpQA2 EXCEPT ![4] = @ + 1] ELSE tmpQA2
                       tmpQA4 == IF nodata THEN [tmpQA3 EXCEPT ![5] = @ + 1] ELSE tmpQA3
                       lambert == Narrow(sr1, ANRUnit)
                   IN  /\ sensor' = [sensor EXCEPT !.OneRowlndSR[iband] = sr1]
                       /\ lndPixAlbedo' =
                            IF neg \/ iso
                            THEN [lndPixAlbedo EXCEPT ![iband * 2] = lambert,
                                                      ![iband * 2 + 1] = lambert]
                            ELSE IF anr
                            THEN [lndPixAlbedo EXCEPT ![iband * 2] = bsa,
                                                      ![iband * 2 + 1] = wsa]
                            ELSE lndPixAlbedo
                       /\ path' = [path EXCEPT ![iband] =
                                      [anr |-> anr, neg |-> neg, iso |-> iso,
                                       nodata |-> nodata]]
                       /\ local' = [local EXCEPT
                                       !.tmpQA = tmpQA4,
                                       !.lndSR_flag = IF nodata THEN @ + 1 ELSE @,
                                       !.iband = @ + 1]
                       /\ pc' = "band"
    /\ UNCHANGED <<snow_flag, QA, closestCls, ANratio, entry, rescued, calls, first>>

\* Lines 263-276: the no-data failure, else the quality code.
Classify ==
    /\ pc = "band"
    /\ local.iband >= sensor.nbands
    /\ IF local.lndSR_flag # 0
       THEN /\ QA' = -1
            /\ Return("FAILURE")
       ELSE /\ QA' = ClassifyQA(local.tmpQA, sensor.nbands, QA)
            /\ pc' = "aggregate"
            /\ UNCHANGED local
    /\ UNCHANGED <<sensor, snow_flag, lndPixAlbedo, closestCls, ANratio, entry,
                   path, rescued, calls, first>>

\* Lines 286-324: the three regressions and their intercepts.
Aggregate ==
    /\ pc = "aggregate"
    /\ local.lndSR_flag = 0
    /\ LET n == sensor.nbands
           sum(coef, sky) ==
               WeightedAlbedo(coef, lndPixAlbedo, sky, n) + Intercept(coef, sensor)
       IN  lndPixAlbedo' =
               [lndPixAlbedo EXCEPT ![12] = sum(local.coef, 0),
                                    ![13] = sum(local.coef, 1),
                                    ![14] = sum(TM_coefficents_vis, 0),
                                    ![15] = sum(TM_coefficents_vis, 1),
                                    ![16] = sum(TM_coefficents_nir, 0),
                                    ![17] = sum(TM_coefficents_nir, 1)]
    /\ pc' = "rescue_sw"
    /\ UNCHANGED <<sensor, snow_flag, QA, closestCls, ANratio, entry, local,
                   path, rescued, calls, first>>

RescueStep(here, i, coef, name, next) ==
    /\ pc = here
    /\ lndPixAlbedo' = RescuePair(lndPixAlbedo, i, coef, sensor)
    /\ QA' = IF NeedsRescue(lndPixAlbedo, i) THEN 4 ELSE QA
    /\ rescued' = IF NeedsRescue(lndPixAlbedo, i) THEN rescued \cup {name} ELSE rescued
    /\ IF next = "done"
       THEN Return("SUCCESS")
       ELSE pc' = next /\ UNCHANGED local
    /\ UNCHANGED <<sensor, snow_flag, closestCls, ANratio, entry, path, calls, first>>

\* Lines 326-345.
RescueSW == RescueStep("rescue_sw", 12, local.coef, "sw", "rescue_vis")

\* Lines 347-366.
RescueVIS == RescueStep("rescue_vis", 14, TM_coefficents_vis, "vis", "rescue_nir")

\* Lines 367-387.
RescueNIR == RescueStep("rescue_nir", 16, TM_coefficents_nir, "nir", "done")

\* The caller runs the same pixel again on the same sensor context, from an
\* output vector and quality code initialised as before.
CallAgain ==
    /\ pc = "done"
    /\ calls = 1
    /\ first' = [ret |-> local.ret, albedo |-> lndPixAlbedo, QA |-> QA]
    /\ calls' = 2
    /\ lndPixAlbedo' = entry.albedo
    /\ QA' = entry.QA
    /\ local' = NoLocal
    /\ path' = NoPath
    /\ rescued' = {}
    /\ pc' = "select"
    /\ UNCHANGED <<sensor, snow_flag, closestCls, ANratio, entry>>

Next ==
    \/ Select
    \/ CheckClass
    \/ BandBody
    \/ Classify
    \/ Aggregate
    \/ RescueSW
    \/ RescueVIS
    \/ RescueNIR

Spec == Init /\ [][Next]_vars

NextTwice == Next \/ CallAgain

SpecTwice == Init /\ [][NextTwice]_vars

----------------------------------------------------------------------------
(* What the claims speak about, read off the state on entry *)

Returned == pc = "done"

ActiveBands == 0 .. (entry.sensor.nbands - 1)

EntrySR(b) == entry.sensor.OneRowlndSR[b]

EntryFill(b) == EntrySR(b) = entry.sensor.SR_fillValue

EntryClass == entry.sensor.Clsdata

EntryClassOK ==
    /\ EntryClass # entry.sensor.Cls_fillValue
    /\ EntryClass <= entry.sensor.actu_ncls
    /\ EntryClass >= 0

\* The kernel weights of the pixel's own class at band b.
OwnParas(b) == entry.sensor.BRDF_paras[EntryClass][TMBandIndx[b + 1]]

OwnUsable(b) == OwnParas(b) # <<0, 0, 0>>

\* The closest-class search is made at band b and finds nothing.
ClosestFails(b) == ~OwnUsable(b) /\ closestCls[TMBandIndx[b + 1]] = -1

\* The first band at which the closest-class search fails.
FirstFailure(b) == ClosestFails(b) /\ \A e \in 0 .. (b - 1) : ~ClosestFails(e)

Purity == entry.sensor.pure_thrsh[EntryClass]

BroadbandUntouched == \A s \in 12 .. 17 : lndPixAlbedo[s] = entry.albedo[s]

----------------------------------------------------------------------------
(* C1 *)

\* C1 (as claimed): a fill reflectance at any active band on entry makes the
\* call return FAILURE with the quality code -1 and the broadband slots
\* 12..17 unwritten, whatever else is wrong with the pixel.
C1_FillAlwaysMinusOne ==
    (Returned /\ \E b \in ActiveBands : EntryFill(b))
        => /\ local.ret = "FAILURE"
           /\ QA = -1
           /\ BroadbandUntouched

\* C1 (amended): a fill reflectance at any active band on entry makes the
\* call return FAILURE with the broadband slots 12..17 unwritten; the quality
\* code is -1 when the class index is valid and no closest-class search
\* fails, and otherwise keeps its value on entry.
C1_FillFails ==
    (Returned /\ \E b \in ActiveBands : EntryFill(b))
        => /\ local.ret = "FAILURE"
           /\ BroadbandUntouched
           /\ IF EntryClassOK /\ \A b \in ActiveBands : ~ClosestFails(b)
              THEN QA = -1
              ELSE QA = entry.QA

C1_Witness ==
    /\ Returned
    /\ \E b \in ActiveBands : EntryFill(b) /\ path[b].nodata
    /\ local.iband = sensor.nbands
    /\ QA = -1

----------------------------------------------------------------------------
(* C2 *)

\* The pixel of C2: valid class, no fill reflectance on entry, and the
\* pixel's own class has kernel weights that are not all zero at every band.
C2_Pixel ==
    /\ EntryClassOK
    /\ \A b \in ActiveBands : ~EntryFill(b) /\ OwnUsable(b)

NarrowNonNegative(b) == lndPixAlbedo[2 * b] >= 0 /\ lndPixAlbedo[2 * b + 1] >= 0

\* C2 (as claimed): for such a pixel the call returns with quality code 0 and
\* the narrow-band slots 0..11 all >= 0, for every purity count, reflectance
\* and anisotropy ratio.  (Stated of the SUCCESS returns on which no
\* broadband rescue ran, where the claim already fails.)
C2_AlwaysZeroAndNonNegative ==
    (Returned /\ C2_Pixel /\ local.ret = "SUCCESS" /\ rescued = {})
        => /\ QA = 0
           /\ \A s \in 0 .. 11 : lndPixAlbedo[s] >= 0

\* C2 (amended): for such a pixel the call, when it returns, has processed
\* every band; the two narrow-band slots of a band are >= 0 unless the band
\* took the isotropic fallback with a negative reflectance; a FAILURE return
\* carries the quality code -1; a SUCCESS return carries 4 when a broadband
\* rescue ran, and otherwise 0 when the purity count exceeds the threshold,
\* 1 when it equals it, and 3 or the entry value when it falls below it.
C2_UsablePixel ==
    (Returned /\ C2_Pixel)
        => /\ local.iband = sensor.nbands
           /\ \A b \in ActiveBands :
                  NarrowNonNegative(b) \/ (path[b].iso /\ EntrySR(b) < 0)
           /\ local.ret = "FAILURE" => QA = -1
           /\ (local.ret = "SUCCESS" /\ rescued # {}) => QA = 4
           /\ (local.ret = "SUCCESS" /\ rescued = {}) =>
                  /\ Purity > PurityThreshold => QA = 0
                  /\ Purity = PurityThreshold => QA = 1
                  /\ Purity < PurityThreshold => QA \in {3, entry.QA}

C2_Witness ==
    /\ Returned
    /\ C2_Pixel
    /\ local.ret = "SUCCESS"
    /\ QA = 0
    /\ \E b \in ActiveBands : EntrySR(b) < 0 /\ path[b].anr

----------------------------------------------------------------------------
(* C3 *)

RECURSIVE LambertianSum(_, _)
LambertianSum(coef, n) ==
    IF n = 0 THEN 0
    ELSE LambertianSum(coef, n - 1) + coef[n] * sensor.OneRowlndSR[n - 1] * ANRUnit

\* The value the claim gives a rescued shortwave slot: the sum over the
\* active bands of coeff * scaleFactor * reflectance, plus the intercept once.
RescuedShortwave ==
    LambertianSum(local.coef, sensor.nbands)
        + local.coef[7] * ANRUnit * sensor.lndSR_ScaInv

\* C3: when the shortwave rescue ran, the two shortwave slots hold on return
\* exactly the Lambertian regression (nothing of the earlier accumulator
\* value) and the quality code is 4.
C3_RescueFromScratch ==
    (Returned /\ "sw" \in rescued)
        => /\ lndPixAlbedo[12] = RescuedShortwave
           /\ lndPixAlbedo[13] = RescuedShortwave
           /\ QA = 4

\* The shortwave rescue has run, and the call has returned.
C3_Reached == Returned /\ "sw" \in rescued /\ QA = 4

----------------------------------------------------------------------------
(* C4 *)

\* The value 0.99 / scaleFactor as the int16 raster holds it.
Saturation == (99 * entry.sensor.lndSR_ScaInv) \div 100

OutsideRange(r) == r < 0 \/ r > Saturation

\* r clamped into [0, 0.99 / scaleFactor].
ClampedIntoRange(r) == IF r < 0 THEN 0 ELSE IF r > Saturation THEN Saturation ELSE r

\* r as the code constrains it: negative to 0, from 1.2 / scaleFactor on to
\* the saturation value, and nothing in between.
ConstrainedByCode(r) ==
    IF r < 0 THEN 0
    ELSE IF 10 * r >= 12 * entry.sensor.lndSR_ScaInv THEN Saturation
    ELSE r

\* The two narrow-band slots of band b are the ones computed from
\* reflectance r on the path the band took.
NarrowFrom(b, r) ==
    IF path[b].iso \/ path[b].neg
    THEN /\ lndPixAlbedo[2 * b] = r * ANRUnit
         /\ lndPixAlbedo[2 * b + 1] = r * ANRUnit
    ELSE /\ lndPixAlbedo[2 * b] = r * ANratio[b].bsa
         /\ lndPixAlbedo[2 * b + 1] = r * ANratio[b].wsa

Processed(b) == b < local.iband /\ ~EntryFill(b)

\* C4 (as claimed): a band whose reflectance lies strictly outside
\* [0, 0.99 / scaleFactor] has its narrow-band values computed from the
\* reflectance clamped into that range, on every path.
C4_ClampedEverywhere ==
    \A b \in ActiveBands :
        (calls = 1 /\ Processed(b) /\ OutsideRange(EntrySR(b)))
            => NarrowFrom(b, ClampedIntoRange(EntrySR(b)))

\* C4 (amended): on the anisotropy path (its Lambertian rescue included) the
\* narrow-band values are computed from the reflectance with negative values
\* raised to 0 and values >= 1.2 / scaleFactor lowered to the saturation
\* value, values between 0.99 / scaleFactor and 1.2 / scaleFactor being used
\* as they are; on the isotropic-fallback path they are computed from the
\* reflectance as it is.
C4_ClampOnAnisotropyPath ==
    \A b \in ActiveBands :
        (calls = 1 /\ Processed(b))
            => /\ path[b].anr # path[b].iso
               /\ path[b].anr => NarrowFrom(b, ConstrainedByCode(EntrySR(b)))
               /\ path[b].iso => NarrowFrom(b, EntrySR(b))

C4_Witness ==
    \E b \in ActiveBands :
        /\ calls = 1
        /\ Processed(b)
        /\ path[b].anr
        /\ EntrySR(b) > Saturation
        /\ sensor.OneRowlndSR[b] = EntrySR(b)

----------------------------------------------------------------------------
(* C5 *)

\* C5: the second of two successive calls on the same sensor context, made
\* with the same output vector and quality code as the first, returns the
\* same status, the same 18 output values and the same quality code.
C5_Idempotent ==
    (Returned /\ calls = 2)
        => /\ first.ret = local.ret
           /\ first.albedo = lndPixAlbedo
           /\ first.QA = QA

\* Both calls have returned.
C5_Reached == Returned /\ calls = 2

----------------------------------------------------------------------------
(* C6 *)

OutputUntouched == lndPixAlbedo = entry.albedo /\ QA = entry.QA

\* C6 (as claimed): a call that fails on the class index or on the
\* closest-class search, at whichever band, returns with all 18 output slots
\* and the quality code as they were on entry.
C6_NothingWritten ==
    (Returned /\ (~EntryClassOK \/ \E b \in ActiveBands : ClosestFails(b)))
        => local.ret = "FAILURE" /\ OutputUntouched

\* C6 (amended): a call with an invalid class index returns FAILURE with the
\* output vector and the quality code as on entry; a call whose closest-class
\* search first fails at band k returns FAILURE from band k, no later band
\* being processed, with the quality code, the broadband slots 12..17 and the
\* narrow-band slots of band k and of the later bands as on entry (the slots
\* of the bands before k may have been written).
C6_ClassFailure ==
    /\ (Returned /\ ~EntryClassOK) => (local.ret = "FAILURE" /\ OutputUntouched)
    /\ \A k \in ActiveBands :
           (Returned /\ EntryClassOK /\ FirstFailure(k))
               => /\ local.ret = "FAILURE"
                  /\ local.iband = k
                  /\ QA = entry.QA
                  /\ \A s \in (2 * k) .. 17 : lndPixAlbedo[s] = entry.albedo[s]
                  /\ \A b \in k .. (sensor.nbands - 1) : path[b] = NoBranch

C6_Witness ==
    \E k \in ActiveBands :
        /\ Returned
        /\ EntryClassOK
        /\ FirstFailure(k)
        /\ k >= 1
        /\ lndPixAlbedo[0] # entry.albedo[0]

----------------------------------------------------------------------------
(* C7 *)

\* C7: the sensor context is, at every point of the call and on every return
\* path, what it was on entry.
C7_SensorUnchanged == sensor = entry.sensor

\* The call has returned with the reflectance raster changed.
C7_Reached == Returned /\ sensor.OneRowlndSR # entry.sensor.OneRowlndSR

----------------------------------------------------------------------------
(* C8 *)

\* The first matching rule over the tallies, with N the active band count.
FirstMatch(high, marginal, borrowed, negative, N, before) ==
    CASE high = N -> 0
      [] high # N /\ high + marginal = N -> 1
      [] high # N /\ high + marginal # N /\ borrowed + high + marginal = N -> 2
      [] high # N /\ high + marginal # N /\ borrowed + high + marginal # N
            /\ negative > 0 -> 3
      [] OTHER -> before

\* C8: on a SUCCESS return on which no broadband rescue ran, the quality code
\* is the one the first matching rule gives, and the entry value if none
\* matches.
C8_FirstMatch ==
    (Returned /\ local.ret = "SUCCESS" /\ rescued = {})
        => QA = FirstMatch(local.tmpQA[0], local.tmpQA[1], local.tmpQA[2],
                           local.tmpQA[3], sensor.nbands, entry.QA)

\* Rule 3 matched on a pixel whose negative-anisotropy tally is positive.
C8_Witness ==
    /\ Returned
    /\ local.ret = "SUCCESS"
    /\ rescued = {}
    /\ local.tmpQA[2] > 0
    /\ local.tmpQA[3] > 0
    /\ QA = 2

----------------------------------------------------------------------------
(* C9 *)

\* The class whose kernel weights band b uses.
ResolvedClass(b) ==
    IF OwnUsable(b) THEN EntryClass ELSE closestCls[TMBandIndx[b + 1]]

RoundedTriple(b) ==
    [k \in 1 .. 3 |->
        RoundWeight(entry.sensor.BRDF_paras[ResolvedClass(b)][TMBandIndx[b + 1]][k])]

\* C9: at a processed band with non-fill reflectance the anisotropy ratio is
\* applied exactly when the three rounded weights are not all zero, and the
\* isotropic fallback is taken exactly when they are all zero.
C9_WholeTripleDecides ==
    \A b \in ActiveBands :
        (calls = 1 /\ Processed(b))
            => /\ path[b].anr <=> (RoundedTriple(b) # <<0, 0, 0>>)
               /\ path[b].iso <=> (RoundedTriple(b) = <<0, 0, 0>>)

\* A band took the isotropic fallback with rounded weights not all zero.
C9_Reached ==
    \E b \in ActiveBands :
        calls = 1 /\ Processed(b) /\ path[b].iso /\ RoundedTriple(b) # <<0, 0, 0>>

----------------------------------------------------------------------------
(* C10 *)

\* C10 (as claimed): a SUCCESS return with quality code 0 and at least one
\* active band has both the negative-anisotropy tally and the
\* isotropic-fallback tally at 0.
C10_ZeroMeansNoFallback ==
    (Returned /\ local.ret = "SUCCESS" /\ QA = 0 /\ sensor.nbands >= 1)
        => local.tmpQA[3] = 0 /\ local.tmpQA[4] = 0

\* C10 (amended): a SUCCESS return with quality code 0 and at least one
\* active band had no broadband rescue, and either every active band used the
\* kernel weights of the pixel's own class, whose purity count exceeds the
\* threshold (the high-confidence tally is N and the borrowed-class tally 0),
\* or no rule matched and the quality code was already 0 on entry; the
\* negative-anisotropy and isotropic-fallback tallies may be positive.
C10_ZeroMeansOwnClass ==
    (Returned /\ local.ret = "SUCCESS" /\ QA = 0 /\ sensor.nbands >= 1)
        => /\ rescued = {}
           /\ \/ /\ \A b \in ActiveBands : OwnUsable(b)
                 /\ Purity > PurityThreshold
                 /\ local.tmpQA[0] = sensor.nbands
                 /\ local.tmpQA[2] = 0
              \/ /\ entry.QA = 0
                 /\ local.tmpQA[0] + local.tmpQA[1] + local.tmpQA[2] # sensor.nbands
                 /\ local.tmpQA[0] + local.tmpQA[1] # sensor.nbands
                 /\ local.tmpQA[0] # sensor.nbands
                 /\ local.tmpQA[3] = 0

\* Quality code 0 on a pixel one of whose bands needed the Lambertian rescue.
C10_Witness ==
    /\ Returned
    /\ local.ret = "SUCCESS"
    /\ QA = 0
    /\ local.tmpQA[0] = sensor.nbands
    /\ local.tmpQA[3] > 0

====
